---- MODULE Spec2Model ----
(***************************************************************************)
(* Model of tomcat/deployer.py (class ClusterDeployer): the deploy and     *)
(* undeploy operations, the conflict check (_clean_old_apps), the memory   *)
(* check (_check_memory, _wait_for_free_mem), the convergence wait         *)
(* (_wait_for_apps) and the rollback.  The cluster client (TomcatCluster)  *)
(* is the environment: every webapp_status and find_pools_over call        *)
(* returns a value chosen from a bounded set.                              *)
(*                                                                         *)
(* Strings that the code compares or sorts (context names, paths) are      *)
(* sequences of character codes, so that sorted() is Python's              *)
(* lexicographic order and not an order chosen by the model.               *)
(***************************************************************************)
EXTENDS Integers, Sequences, FiniteSets, TLC

VARIABLES
    cfg,          \* the options of the deployer
    op,           \* the public operation called: "deploy" or "undeploy"
    new_apps,     \* the batch, in the iteration order of the dict
    pc,           \* where the call is
    idx,          \* the position of the for loop under way
    stats,        \* the status read by _clean_old_apps or _wait_for_apps
    stats2,       \* the status read again by _undeploy_old_versions
    rv,           \* _get_memory: what find_pools_over returned (line 90)
    mem,          \* what _get_memory returned last
    hosts,        \* _check_memory: the hosts short of memory
    wait_total,   \* the wait_total of the loop under way
    failed_apps,  \* _wait_for_apps: failed_apps
    log,          \* the calls of the cluster client and the returns so far
    slept,        \* the sum of the time.sleep calls so far
    err           \* "running", "returned" or the exception raised

vars == <<cfg, op, new_apps, pc, idx, stats, stats2, rv, mem, hosts,
          wait_total, failed_apps, log, slept, err>>

(***************************************************************************)
(* Bounds of the model.                                                    *)
(***************************************************************************)
\* most contexts one status snapshot of the cluster reports
MaxApps == 2
\* most units in one batch (new_apps)
MaxBatch == 2

(***************************************************************************)
(* Strings.                                                                *)
(***************************************************************************)
\* Python's None
None == <<>>

\* the contexts a status may report: "/a" (without a version), "/a##10",
\* "/a##2" and "/a##9", which all serve the path "/a"
CtxA == <<47, 97>>
CtxA10 == <<47, 97, 35, 35, 49, 48>>
CtxA2 == <<47, 97, 35, 35, 50>>
CtxA9 == <<47, 97, 35, 35, 57>>

Ctxs == {CtxA, CtxA10, CtxA2, CtxA9}

Nodes == <<"n1", "n2">>

NodeSet == {Nodes[i] : i \in 1..Len(Nodes)}

\* Python 2 str.__lt__: code point by code point, a proper prefix is smaller
RECURSIVE StrLess(_, _)
StrLess(s, t) ==
    IF s = <<>> THEN t # <<>>
    ELSE IF t = <<>> THEN FALSE
    ELSE IF Head(s) # Head(t) THEN Head(s) < Head(t)
    ELSE StrLess(Tail(s), Tail(t))

\* the order a version-aware comparison would give: a shorter name is smaller
StrLessNumeric(s, t) ==
    IF Len(s) # Len(t) THEN Len(s) < Len(t) ELSE StrLess(s, t)

\* the comparison sorted() uses on context names
CtxLess(s, t) == StrLess(s, t)

RECURSIVE Insert(_, _)
Insert(x, s) ==
    IF s = <<>> THEN <<x>>
    ELSE IF CtxLess(x, Head(s)) THEN <<x>> \o s
    ELSE <<Head(s)>> \o Insert(x, Tail(s))

\* sorted(list)
RECURSIVE sorted(_)
sorted(s) == IF s = <<>> THEN <<>> ELSE Insert(Head(s), sorted(Tail(s)))

Last(s) == s[Len(s)]

\* list[:-1]
AllButLast(s) == SubSeq(s, 1, Len(s) - 1)

Range(s) == {s[i] : i \in 1..Len(s)}

RECURSIVE SetToSeq(_)
SetToSeq(S) ==
    IF S = {} THEN <<>>
    ELSE LET x == CHOOSE y \in S : \A z \in S : y = z \/ StrLess(y, z)
         IN  <<x>> \o SetToSeq(S \ {x})

(***************************************************************************)
(* The environment: what the cluster client returns.                       *)
(***************************************************************************)
\* the path a context serves: the context name up to "##"
RECURSIVE PathOf(_)
PathOf(c) ==
    IF c = <<>> \/ Head(c) = 35 THEN <<>> ELSE <<Head(c)>> \o PathOf(Tail(c))

\* the version of a context: what follows "##", None without one
VersionOf(c) ==
    IF Len(PathOf(c)) = Len(c) THEN None
    ELSE SubSeq(c, Len(PathOf(c)) + 3, Len(c))

\* one application's entry of a webapp_status result:
\*   "ok"       on every node, coherent, STARTED
\*   "stopped"  on every node, coherent, not STARTED
\*   "partial"  on the first node only: not coherent, no cluster-wide path
Variants == {"ok", "stopped", "partial"}

AppStatus(c, v) ==
    [ path       |-> IF v = "partial" THEN None ELSE PathOf(c),
      coherent   |-> v # "partial",
      stateName  |-> IF v = "stopped" THEN "STOPPED" ELSE "STARTED",
      nodePath   |-> IF v = "partial"
                     THEN [n \in {Nodes[1]} |-> PathOf(c)]
                     ELSE [n \in NodeSet |-> PathOf(c)] ]

\* the possible results of c.webapp_status('*', vhost)
Snapshots ==
    UNION { { [c \in S |-> AppStatus(c, k[c])] : k \in [S -> Variants] }
            : S \in {T \in SUBSET Ctxs : Cardinality(T) <= MaxApps} }

\* no status read yet / the local is out of scope
NoStats == <<>>

\* pools a node reports over the threshold
NoisePools == <<"Par Eden Space", "Par Survivor Space">>
MixedPools == <<"Par Eden Space", "CMS Old Gen">>

PoolLists == {NoisePools, MixedPools}

\* the possible results of c.run_command('find_pools_over', pct, hosts=hs)
PoolResults(hs) == UNION { [S -> PoolLists] : S \in SUBSET hs }

(***************************************************************************)
(* The inputs of deploy and undeploy.                                      *)
(***************************************************************************)
Unit(c) == [fn |-> c, ctx |-> c, path |-> PathOf(c), ver |-> VersionOf(c)]

\* the contexts of the artifacts that may be deployed
NewCtxs == {CtxA, CtxA10, CtxA9}

Units == {Unit(c) : c \in NewCtxs}

Batches ==
    UNION { {b \in [1..n -> Units] : \A i, j \in 1..n : i # j => b[i] # b[j]}
            : n \in 0..MaxBatch }

PollIntervals == {5}
GcWaitTimes == {10}
DeployWaitTimes == {0, 7, 10}

Configs ==
    [ undeploy_on_error : BOOLEAN,
      poll_interval     : PollIntervals,
      deploy_wait_time  : DeployWaitTimes,
      gc_wait_time      : GcWaitTimes,
      check_memory      : BOOLEAN,
      auto_gc           : BOOLEAN,
      kill_sessions     : BOOLEAN ]

\* failed_apps before its first assignment in _wait_for_apps
Unbound == << <<-1>> >>

(***************************************************************************)
(* Program constants and pure helpers of ClusterDeployer.                  *)
(***************************************************************************)
required_memory == 50

ignore_pools == {"Par Eden Space", "Par Survivor Space"}

NotIgnored(x) == x \notin ignore_pools

\* _get_memory.ignore_filter
ignore_filter(lst) == SelectSeq(lst, NotIgnored)

\* a filter that keeps every host that reports a pool
LowMemoryAnyPool(v) == Len(v) > 0

\* the test of the filter of _get_memory: the host keeps a pool that counts
LowMemory(v) == Len(ignore_filter(v)) > 0

\* _get_memory: the hosts of rv that have a pool left after ignore_filter
get_memory(r) ==
    [k \in {h \in DOMAIN r : LowMemory(r[h])} |-> r[k]]

\* a GC that is run on every node of the cluster
GcHostsAll(m) == NodeSet

\* _check_memory, line 121: the hosts the GC is run on
GcHosts(m) == DOMAIN m

\* a wait that gives up as soon as gc_wait_time is reached
GcWaitReached(wt, gc_wait_time) == wt >= gc_wait_time

\* _wait_for_free_mem, line 103
GcWaitOver(wt, gc_wait_time) == wt > gc_wait_time

\* a deploy that goes on to _deploy whatever check_memory says
AfterCleanNoMemory(check_memory_opt) == "deploy"

\* deploy, lines 207-209: what follows _clean_old_apps
AfterClean(check_memory_opt) ==
    IF check_memory_opt THEN "check_memory" ELSE "deploy"

\* d[k] = [v]: the bucket is replaced
SetDefaultReplace(d, k, v) ==
    IF k \in DOMAIN d THEN [d EXCEPT ![k] = <<v>>]
    ELSE d @@ (k :> <<v>>)

\* dict.setdefault(k, []).append(v)
SetDefaultAppend(d, k, v) ==
    IF k \in DOMAIN d THEN [d EXCEPT ![k] = Append(@, v)]
    ELSE d @@ (k :> <<v>>)

\* the order in which stats.items() yields the applications
Items(st) == SetToSeq(DOMAIN st)

\* _get_webapps: paths, the contexts under each cluster-wide path
RECURSIVE BuildPaths(_, _, _)
BuildPaths(st, keys, acc) ==
    IF keys = <<>> THEN acc
    ELSE BuildPaths(st, Tail(keys),
                    SetDefaultAppend(acc, st[Head(keys)].path, Head(keys)))

get_paths(st) == BuildPaths(st, Items(st), <<>>)

\* _get_webapps, inner loop: one application's per-node paths
RECURSIVE AddNodePaths(_, _, _)
AddNodePaths(np, ns, acc) ==
    IF ns = <<>> THEN acc
    ELSE IF Head(ns) \in DOMAIN np
         THEN AddNodePaths(np, Tail(ns),
                           SetDefaultAppend(acc, np[Head(ns)], Head(ns)))
         ELSE AddNodePaths(np, Tail(ns), acc)

\* _get_webapps: all_paths, the nodes under each per-node path
RECURSIVE BuildAllPaths(_, _, _)
BuildAllPaths(st, keys, acc) ==
    IF keys = <<>> THEN acc
    ELSE BuildAllPaths(st, Tail(keys),
                       AddNodePaths(st[Head(keys)].nodePath, Nodes, acc))

get_all_paths(st) == BuildAllPaths(st, Items(st), <<>>)

\* the exception of a raise whose message formats d[k]: the lookup comes
\* first, and raises KeyError when k is not a key of d
RaiseFormatting(d, k, e) == IF k \in DOMAIN d THEN e ELSE "KeyError"

\* _clean_old_apps, line 74: the latest of the new context and the old ones
latest(ctx, old) == Last(sorted(<<ctx>> \o old))

\* every context of the path taken as old
oldapps_all(old) == sorted(old)

\* _clean_old_apps, line 79
oldapps(old) == AllButLast(sorted(old))

\* a branch that retires the old versions without comparing the new one
VersionCheckNoCompare(u, paths) ==
    IF Len(paths[u.path]) > 1 THEN "retire" ELSE "pass"

\* _clean_old_apps, lines 71-80: the branch taken once the path is known to
\* be in paths
VersionCheck(u, paths) ==
    IF Len(paths[u.path]) > 1
    THEN IF u.ctx # latest(u.ctx, paths[u.path])
         THEN "SupersededByNewerVersion"
         ELSE "retire"
    ELSE "pass"

\* a loop body that looks at the path before the context
CleanUnitPathFirst(u, st) ==
    LET paths == get_paths(st)
        all_paths == get_all_paths(st)
    IN  IF u.path \in DOMAIN all_paths
        THEN IF u.ver = None
             THEN RaiseFormatting(paths, u.path, "PathCollision")
             ELSE IF u.path \notin DOMAIN paths
             THEN RaiseFormatting(paths, u.path, "PartialClusterDeployment")
             ELSE VersionCheck(u, paths)
        ELSE IF u.ctx \in DOMAIN st THEN "ContextCollision"
        ELSE "pass"

\* _clean_old_apps, lines 57-80: what the loop body does for one unit
\*   an exception, "retire" (call _undeploy_old_versions) or "pass"
CleanUnit(u, st) ==
    LET paths == get_paths(st)
        all_paths == get_all_paths(st)
    IN  IF u.ctx \in DOMAIN st THEN "ContextCollision"
        ELSE IF u.path \in DOMAIN all_paths
        THEN IF u.ver = None
             THEN RaiseFormatting(paths, u.path, "PathCollision")
             ELSE IF u.path \notin DOMAIN paths
             THEN RaiseFormatting(paths, u.path, "PartialClusterDeployment")
             ELSE VersionCheck(u, paths)
        ELSE "pass"

\* a check after the retirement that accepts whatever is left
RetireCheckAcceptsAll(path, st) ==
    IF path \notin DOMAIN get_paths(st) THEN "KeyError" ELSE "pass"

\* _undeploy_old_versions, lines 48-52, on the status read again
RetireCheck(path, st) ==
    LET paths == get_paths(st)
    IN  IF path \notin DOMAIN paths THEN "KeyError"
        ELSE IF Len(paths[path]) > 1 THEN "AmbiguousVersionsRemain"
        ELSE "pass"

\* a test of coherent the wrong way round
AppFailedCoherent(ctx, st) ==
    IF ctx \notin DOMAIN st THEN TRUE
    ELSE st[ctx].coherent = TRUE \/ st[ctx].stateName # "STARTED"

\* _wait_for_apps, lines 141-148: the context is not there, or not ready
AppFailed(ctx, st) ==
    IF ctx \notin DOMAIN st THEN TRUE
    ELSE st[ctx].coherent = FALSE \/ st[ctx].stateName # "STARTED"

\* a list of the contexts that are absent only
FailedAppsAbsent(ctx_list, st) ==
    SelectSeq(ctx_list, LAMBDA c : c \notin DOMAIN st)

\* _wait_for_apps, lines 138-148
FailedApps(ctx_list, st) ==
    SelectSeq(ctx_list, LAMBDA c : AppFailed(c, st))

ctx_names == [i \in 1..Len(new_apps) |-> new_apps[i].ctx]

TomcatErrors ==
    {"ContextCollision", "PathCollision", "PartialClusterDeployment",
     "SupersededByNewerVersion", "AmbiguousVersionsRemain",
     "InsufficientMemory", "DeploymentFailed"}

\* a call of the cluster client, or the return of a method of the deployer
Call(c, a) == [cmd |-> c, arg |-> a]
Ret(f) == [cmd |-> "return", arg |-> f]

RECURSIVE ExpireCalls(_)
ExpireCalls(apps) ==
    IF apps = <<>> THEN <<>>
    ELSE <<Call("expire_sessions", Head(apps))>> \o ExpireCalls(Tail(apps))

(***************************************************************************)
(* Init: a deployer has been constructed with some options, and deploy or  *)
(* undeploy is about to be called with some batch.                         *)
(***************************************************************************)
Init ==
    /\ cfg \in Configs
    /\ op \in {"deploy", "undeploy"}
    /\ new_apps \in Batches
    /\ pc = "start"
    /\ idx = 1
    /\ stats = NoStats
    /\ stats2 = NoStats
    /\ rv = <<>>
    /\ mem = <<>>
    /\ hosts = {}
    /\ wait_total = 0
    /\ failed_apps = Unbound
    /\ log = <<>>
    /\ slept = 0
    /\ err = "running"

\* raise e out of the public operation
Raise(e) == pc' = "done" /\ err' = e

\* the public operation returns
Return == pc' = "done" /\ err' = "returned"

(***************************************************************************)
(* deploy, line 206, _clean_old_apps line 55: the status is read once.     *)
(***************************************************************************)
clean_old_apps_read ==
    /\ pc = "start" /\ op = "deploy"
    /\ \E s \in Snapshots : stats' = s
    /\ log' = Append(log, Call("webapp_status", None))
    /\ pc' = "clean"
    /\ idx' = 1
    /\ UNCHANGED <<cfg, op, new_apps, stats2, rv, mem, hosts, wait_total,
                   failed_apps, slept, err>>

\* _clean_old_apps, lines 56-80: the unit collides, or formatting the
\* message raises
clean_old_apps_raise ==
    /\ pc = "clean" /\ idx <= Len(new_apps)
    /\ CleanUnit(new_apps[idx], stats) \notin {"pass", "retire"}
    /\ Raise(CleanUnit(new_apps[idx], stats))
    /\ UNCHANGED <<cfg, op, new_apps, idx, stats, stats2, rv, mem, hosts,
                   wait_total, failed_apps, log, slept>>

\* _clean_old_apps, lines 56-80: nothing to do for the unit
clean_old_apps_pass ==
    /\ pc = "clean" /\ idx <= Len(new_apps)
    /\ CleanUnit(new_apps[idx], stats) = "pass"
    /\ idx' = idx + 1
    /\ UNCHANGED <<cfg, op, new_apps, pc, stats, stats2, rv, mem, hosts,
                   wait_total, failed_apps, log, slept, err>>

\* a retirement that checks the status it already has
undeploy_old_versions_no_read ==
    /\ pc = "clean" /\ idx <= Len(new_apps)
    /\ CleanUnit(new_apps[idx], stats) = "retire"
    /\ \E s \in Snapshots : stats2' = s
    /\ log' = log
              \o (IF cfg.kill_sessions
                  THEN ExpireCalls(oldapps(get_paths(stats)[new_apps[idx].path]))
                  ELSE <<>>)
              \o <<Call("undeploy_old_versions", None)>>
    /\ pc' = "retire_check"
    /\ UNCHANGED <<cfg, op, new_apps, idx, stats, rv, mem, hosts, wait_total,
                   failed_apps, slept, err>>

\* _clean_old_apps line 80, _undeploy_old_versions lines 41-47: sessions
\* expired, old versions undeployed, status read again
undeploy_old_versions ==
    /\ pc = "clean" /\ idx <= Len(new_apps)
    /\ CleanUnit(new_apps[idx], stats) = "retire"
    /\ \E s \in Snapshots : stats2' = s
    /\ log' = log
              \o (IF cfg.kill_sessions
                  THEN ExpireCalls(oldapps(get_paths(stats)[new_apps[idx].path]))
                  ELSE <<>>)
              \o <<Call("undeploy_old_versions", None),
                   Call("webapp_status", None)>>
    /\ pc' = "retire_check"
    /\ UNCHANGED <<cfg, op, new_apps, idx, stats, rv, mem, hosts, wait_total,
                   failed_apps, slept, err>>

\* _undeploy_old_versions, lines 48-52
undeploy_old_versions_check ==
    /\ pc = "retire_check"
    /\ LET r == RetireCheck(new_apps[idx].path, stats2)
       IN  IF r = "pass"
           THEN /\ pc' = "clean"
                /\ idx' = idx + 1
                /\ err' = err
           ELSE /\ Raise(r)
                /\ idx' = idx
    /\ stats2' = IF RetireCheck(new_apps[idx].path, stats2) = "pass"
                 THEN NoStats ELSE stats2
    /\ UNCHANGED <<cfg, op, new_apps, stats, rv, mem, hosts, wait_total,
                   failed_apps, log, slept>>

\* _clean_old_apps returns; deploy, line 207
clean_old_apps_return ==
    /\ pc = "clean" /\ idx > Len(new_apps)
    /\ stats' = NoStats
    /\ log' = Append(log, Ret("_clean_old_apps"))
    /\ pc' = AfterClean(cfg.check_memory)
    /\ idx' = 1
    /\ UNCHANGED <<cfg, op, new_apps, stats2, rv, mem, hosts, wait_total,
                   failed_apps, slept, err>>

(***************************************************************************)
(* _check_memory, lines 109-128, up to the call of _wait_for_free_mem.     *)
(***************************************************************************)
check_memory ==
    /\ pc = "check_memory"
    /\ \E r \in PoolResults(NodeSet) :
         LET m == get_memory(r)
             q == Call("find_pools_over", NodeSet)
         IN  /\ rv' = r
             /\ mem' = m
             /\ IF Cardinality(DOMAIN m) <= 0
                THEN /\ log' = log \o <<q, Ret("_check_memory")>>
                     /\ pc' = "deploy"
                     /\ UNCHANGED <<hosts, err>>
                ELSE IF cfg.auto_gc
                THEN /\ log' = log \o <<q, Call("run_gc", GcHosts(m))>>
                     /\ hosts' = DOMAIN m
                     /\ pc' = "wait_mem"
                     /\ err' = err
                ELSE /\ log' = Append(log, q)
                     /\ hosts' = DOMAIN m
                     /\ Raise("InsufficientMemory")
    /\ wait_total' = 0
    /\ idx' = 1
    /\ UNCHANGED <<cfg, op, new_apps, stats, stats2, failed_apps, slept>>

\* a wait that asks every node of the cluster again
wait_for_free_mem_all_nodes ==
    /\ pc = "wait_mem"
    /\ \E r \in PoolResults(NodeSet) :
         LET m == get_memory(r)
         IN  /\ rv' = r
             /\ mem' = m
             /\ IF ~(Cardinality(DOMAIN m) > 0)
                THEN /\ log' = log \o <<Call("find_pools_over", NodeSet),
                                        Ret("_check_memory")>>
                     /\ pc' = "deploy"
                     /\ UNCHANGED <<wait_total, slept, err>>
                ELSE IF GcWaitOver(wait_total, cfg.gc_wait_time)
                THEN /\ log' = Append(log, Call("find_pools_over", NodeSet))
                     /\ Raise("InsufficientMemory")
                     /\ UNCHANGED <<wait_total, slept>>
                ELSE /\ log' = Append(log, Call("find_pools_over", NodeSet))
                     /\ slept' = slept + cfg.poll_interval
                     /\ wait_total' = wait_total + cfg.poll_interval
                     /\ UNCHANGED <<pc, err>>
    /\ UNCHANGED <<cfg, op, new_apps, idx, stats, stats2, hosts, failed_apps>>

\* _wait_for_free_mem, lines 102-107: one test of the while condition and
\* the loop body or the return that follows
wait_for_free_mem ==
    /\ pc = "wait_mem"
    /\ \E r \in PoolResults(hosts) :
         LET m == get_memory(r)
         IN  /\ rv' = r
             /\ mem' = m
             /\ IF ~(Cardinality(DOMAIN m) > 0)
                THEN /\ log' = log \o <<Call("find_pools_over", hosts),
                                        Ret("_check_memory")>>
                     /\ pc' = "deploy"
                     /\ UNCHANGED <<wait_total, slept, err>>
                ELSE IF GcWaitOver(wait_total, cfg.gc_wait_time)
                THEN /\ log' = Append(log, Call("find_pools_over", hosts))
                     /\ Raise("InsufficientMemory")
                     /\ UNCHANGED <<wait_total, slept>>
                ELSE /\ log' = Append(log, Call("find_pools_over", hosts))
                     /\ slept' = slept + cfg.poll_interval
                     /\ wait_total' = wait_total + cfg.poll_interval
                     /\ UNCHANGED <<pc, err>>
    /\ UNCHANGED <<cfg, op, new_apps, idx, stats, stats2, hosts, failed_apps>>

(***************************************************************************)
(* _deploy, lines 187-192.                                                 *)
(***************************************************************************)
deploy_cmd ==
    /\ pc = "deploy" /\ idx <= Len(new_apps)
    /\ log' = Append(log, Call("deploy", new_apps[idx].ctx))
    /\ idx' = idx + 1
    /\ UNCHANGED <<cfg, op, new_apps, pc, stats, stats2, rv, mem, hosts,
                   wait_total, failed_apps, slept, err>>

\* _deploy returns; _wait_for_apps, lines 131-134
deploy_return ==
    /\ pc = "deploy" /\ idx > Len(new_apps)
    /\ pc' = "wait_apps"
    /\ wait_total' = 0
    /\ failed_apps' = Unbound
    /\ rv' = <<>>
    /\ mem' = <<>>
    /\ UNCHANGED <<cfg, op, new_apps, idx, stats, stats2, hosts, log, slept,
                   err>>

(***************************************************************************)
(* _wait_for_apps, lines 135-153.                                          *)
(***************************************************************************)
\* a loop that goes on while wait_total has not passed deploy_wait_time
wait_for_apps_poll_inclusive ==
    /\ pc = "wait_apps"
    /\ wait_total <= cfg.deploy_wait_time
    /\ \E s \in Snapshots :
         /\ stats' = s
         /\ failed_apps' = FailedApps(ctx_names, s)
    /\ log' = Append(log, Call("webapp_status", None))
    /\ pc' = "wait_polled"
    /\ UNCHANGED <<cfg, op, new_apps, idx, stats2, rv, mem, hosts, wait_total,
                   slept, err>>

\* lines 135-148: the while condition holds, the status is read and the
\* contexts that are not ready are collected
wait_for_apps_poll ==
    /\ pc = "wait_apps"
    /\ wait_total < cfg.deploy_wait_time
    /\ \E s \in Snapshots :
         /\ stats' = s
         /\ failed_apps' = FailedApps(ctx_names, s)
    /\ log' = Append(log, Call("webapp_status", None))
    /\ pc' = "wait_polled"
    /\ UNCHANGED <<cfg, op, new_apps, idx, stats2, rv, mem, hosts, wait_total,
                   slept, err>>

\* lines 149-153: cluster_ok, which is True exactly when failed_apps is
\* empty, breaks out of the loop and failed_apps is returned
wait_for_apps_break ==
    /\ pc = "wait_polled"
    /\ failed_apps = <<>>
    /\ pc' = "waited"
    /\ log' = Append(log, Ret("_wait_for_apps"))
    /\ stats' = NoStats
    /\ UNCHANGED <<cfg, op, new_apps, idx, stats2, rv, mem, hosts, wait_total,
                   failed_apps, slept, err>>

\* lines 151-152: the rest of the loop body; stats is read again before its
\* next use
wait_for_apps_sleep ==
    /\ pc = "wait_polled"
    /\ failed_apps # <<>>
    /\ wait_total' = wait_total + cfg.poll_interval
    /\ slept' = slept + cfg.poll_interval
    /\ stats' = NoStats
    /\ pc' = "wait_apps"
    /\ UNCHANGED <<cfg, op, new_apps, idx, stats2, rv, mem, hosts, failed_apps,
                   log, err>>

\* the while condition is false: line 153 returns failed_apps, which is not
\* bound when the loop body never ran
wait_for_apps_timeout ==
    /\ pc = "wait_apps"
    /\ ~(wait_total < cfg.deploy_wait_time)
    /\ IF failed_apps = Unbound
       THEN Raise("UnboundLocalError") /\ log' = log
       ELSE /\ pc' = "waited"
            /\ log' = Append(log, Ret("_wait_for_apps"))
            /\ err' = err
    /\ UNCHANGED <<cfg, op, new_apps, idx, stats, stats2, rv, mem, hosts,
                   wait_total, failed_apps, slept>>

(***************************************************************************)
(* deploy, lines 213-219.                                                  *)
(***************************************************************************)
\* a deploy that raises without the rollback
deploy_result_no_rollback ==
    /\ pc = "waited"
    /\ IF Len(failed_apps) > 0
       THEN Raise("DeploymentFailed") /\ idx' = idx
       ELSE Return /\ idx' = idx
    /\ UNCHANGED <<cfg, op, new_apps, stats, stats2, rv, mem, hosts, wait_total,
                   failed_apps, log, slept>>

deploy_result ==
    /\ pc = "waited"
    /\ IF Len(failed_apps) > 0
       THEN IF cfg.undeploy_on_error
            THEN pc' = "undeploy" /\ idx' = 1 /\ err' = err
            ELSE Raise("DeploymentFailed") /\ idx' = idx
       ELSE Return /\ idx' = idx
    /\ UNCHANGED <<cfg, op, new_apps, stats, stats2, rv, mem, hosts, wait_total,
                   failed_apps, log, slept>>

(***************************************************************************)
(* undeploy, lines 221-231.                                                *)
(***************************************************************************)
\* the public operation is called
undeploy_call ==
    /\ pc = "start" /\ op = "undeploy"
    /\ pc' = "undeploy"
    /\ idx' = 1
    /\ UNCHANGED <<cfg, op, new_apps, stats, stats2, rv, mem, hosts, wait_total,
                   failed_apps, log, slept, err>>

undeploy_cmd ==
    /\ pc = "undeploy" /\ idx <= Len(ctx_names)
    /\ log' = Append(log, Call("undeploy", ctx_names[idx]))
    /\ idx' = idx + 1
    /\ UNCHANGED <<cfg, op, new_apps, pc, stats, stats2, rv, mem, hosts,
                   wait_total, failed_apps, slept, err>>

\* an undeploy that raises whoever called it
undeploy_return_raises ==
    /\ pc = "undeploy" /\ idx > Len(ctx_names)
    /\ Raise("DeploymentFailed")
    /\ UNCHANGED <<cfg, op, new_apps, idx, stats, stats2, rv, mem, hosts,
                   wait_total, failed_apps, log, slept>>

\* undeploy returns rv: to the caller, or to deploy, whose line 219 raises
undeploy_return ==
    /\ pc = "undeploy" /\ idx > Len(ctx_names)
    /\ IF op = "deploy" THEN Raise("DeploymentFailed") ELSE Return
    /\ UNCHANGED <<cfg, op, new_apps, idx, stats, stats2, rv, mem, hosts,
                   wait_total, failed_apps, log, slept>>

Next ==
    \/ clean_old_apps_read
    \/ clean_old_apps_raise
    \/ clean_old_apps_pass
    \/ undeploy_old_versions
    \/ undeploy_old_versions_check
    \/ clean_old_apps_return
    \/ check_memory
    \/ wait_for_free_mem
    \/ deploy_cmd
    \/ deploy_return
    \/ wait_for_apps_poll
    \/ wait_for_apps_break
    \/ wait_for_apps_sleep
    \/ wait_for_apps_timeout
    \/ deploy_result
    \/ undeploy_call
    \/ undeploy_cmd
    \/ undeploy_return

Spec == Init /\ [][Next]_vars

\* a step of one of the two wait loops: _wait_for_free_mem, _wait_for_apps
WaitStep ==
    \/ wait_for_free_mem
    \/ wait_for_apps_poll
    \/ wait_for_apps_break
    \/ wait_for_apps_sleep
    \/ wait_for_apps_timeout

\* Init with the two options that no wait loop reads at their defaults of
\* lines 11 and 19: undeploy_on_error is read at line 216, after _wait_for_apps
\* has returned, and kill_sessions at line 41, before the memory check
InitWait ==
    /\ Init
    /\ cfg.undeploy_on_error = TRUE
    /\ cfg.kill_sessions = FALSE

\* the deployer is one thread, and every call of the client and every sleep
\* returns: a step of a wait loop that can be taken is taken
FairSpec == InitWait /\ [][Next]_vars /\ WF_vars(WaitStep)

(***************************************************************************)
(* Vocabulary of the properties.                                           *)
(***************************************************************************)
\* the positions of the log where the client is called with command c
Cmds(c) == {i \in DOMAIN log : log[i].cmd = c}

\* the positions of the log where method f of the deployer returns
Rets(f) == {i \in DOMAIN log : log[i].cmd = "return" /\ log[i].arg = f}

\* the same, of the log after the step
CmdsNext(c) == {i \in DOMAIN log' : log'[i].cmd = c}

NoDeployCmd == Cmds("deploy") = {}

\* the commands that change the cluster
ChangingCmds ==
    {"expire_sessions", "undeploy_old_versions", "run_gc", "deploy",
     "undeploy"}

\* the conflict check is looking at unit new_apps[idx]
Examining == op = "deploy" /\ pc = "clean" /\ idx <= Len(new_apps)

\* the contexts the status st gives for path p, cluster-wide
ServedBy(st, p) ==
    {c \in DOMAIN st : st[c].path = p}

\* the paths some node of st serves
NodePaths(st) ==
    {st[c].nodePath[n] : <<c, n>> \in
        {x \in (DOMAIN st) \X NodeSet : x[2] \in DOMAIN st[x[1]].nodePath}}

\* character by character: s is a proper prefix of t, or the first
\* character that differs is smaller in s
LexLess(s, t) ==
    \E k \in 1..Len(t) :
        /\ \A j \in 1..(k - 1) : j <= Len(s) /\ s[j] = t[j]
        /\ k > Len(s) \/ (k <= Len(s) /\ s[k] < t[k])

(***************************************************************************)
(* C1: in every run of deploy the commands follow the order conflict       *)
(* check, memory check, deploy, convergence, rollback: a deploy command    *)
(* comes after _clean_old_apps has returned and, when check_memory is set, *)
(* after _check_memory has returned; the commands of the conflict check    *)
(* come before that return and those of the memory check after it; when    *)
(* the status is first read for convergence every unit of the batch has    *)
(* its deploy command, and none comes later; an undeploy command comes     *)
(* after _wait_for_apps returned a list that is not empty.                 *)
(***************************************************************************)
C1_Order ==
    op = "deploy" =>
      /\ \A i \in Cmds("deploy") :
           /\ \E j \in Rets("_clean_old_apps") : j < i
           /\ cfg.check_memory => \E j \in Rets("_check_memory") : j < i
           /\ \A j \in Cmds("webapp_status") :
                j > i \/ \A k \in Rets("_clean_old_apps") : j < k
      /\ \A i \in Cmds("expire_sessions") \cup Cmds("undeploy_old_versions") :
           \A j \in Rets("_clean_old_apps") : i < j
      /\ \A i \in Cmds("find_pools_over") \cup Cmds("run_gc") :
           /\ cfg.check_memory
           /\ \E j \in Rets("_clean_old_apps") : j < i
           /\ \A j \in Cmds("deploy") : i < j
      /\ \A i \in Cmds("webapp_status") :
           (\E j \in Rets("_clean_old_apps") : j < i) =>
              \A k \in 1..Len(new_apps) :
                 \E d \in Cmds("deploy") :
                    d < i /\ log[d].arg = new_apps[k].ctx
      /\ \A i \in Cmds("undeploy") :
           /\ \E j \in Rets("_wait_for_apps") : j < i
           /\ failed_apps # Unbound /\ Len(failed_apps) > 0
           /\ \A j \in Cmds("deploy") \cup Cmds("webapp_status") : j < i

\* a run that went through every phase, the rollback included
C1_Witness ==
    /\ op = "deploy" /\ pc = "done" /\ err = "DeploymentFailed"
    /\ Cmds("undeploy_old_versions") # {}
    /\ Cmds("run_gc") # {}
    /\ Cardinality(Cmds("find_pools_over")) > 1
    /\ Cardinality(Cmds("deploy")) = Len(new_apps)
    /\ Cardinality(Cmds("undeploy")) = Len(new_apps)
    /\ Len(new_apps) > 0

(***************************************************************************)
(* The conflict check.                                                     *)
(***************************************************************************)
\* deploy is in _clean_old_apps, or has been ended by an exception there:
\* stats is then the status that the conflict check read
InConflictCheck ==
    /\ op = "deploy"
    /\ pc \in {"clean", "retire_check", "done"}
    /\ Rets("_clean_old_apps") = {}

\* some unit of the batch has a context that is a key of that status
Colliding == \E i \in 1..Len(new_apps) : new_apps[i].ctx \in DOMAIN stats

\* the exceptions that can end the conflict check
ConflictExits ==
    {"ContextCollision", "PathCollision", "PartialClusterDeployment",
     "SupersededByNewerVersion", "AmbiguousVersionsRemain", "KeyError"}

(***************************************************************************)
(* C2, as claimed: a batch with a unit whose context is a key of the       *)
(* status read by the conflict check ends with ContextCollision, and no    *)
(* deploy command is issued.  The runs that end with the KeyError of C3 and *)
(* C4 are left aside: the claim fails without them.                        *)
(***************************************************************************)
C2_Claimed ==
    (InConflictCheck /\ pc = "done" /\ Colliding /\ err # "KeyError") =>
        (err = "ContextCollision" /\ NoDeployCmd)

(***************************************************************************)
(* C2, amended: with such a unit in the batch, deploy never leaves the     *)
(* conflict check and never issues a deploy command: it ends with an       *)
(* exception raised there, which is ContextCollision exactly when the      *)
(* unit the check stopped at is one whose context is a key of the status;  *)
(* a unit examined with its context in the status raises ContextCollision  *)
(* at once, before any other test and without any command.                 *)
(***************************************************************************)
C2_Step ==
    /\ (Examining /\ new_apps[idx].ctx \in DOMAIN stats) =>
          (pc' = "done" /\ err' = "ContextCollision" /\ log' = log)
    /\ (InConflictCheck /\ Colliding) =>
          /\ InConflictCheck' /\ stats' = stats /\ NoDeployCmd'
          /\ pc' = "done" =>
                /\ err' \in ConflictExits
                /\ err' = "ContextCollision" <=>
                      new_apps[idx'].ctx \in DOMAIN stats

C2_ContextCollision == [][C2_Step]_vars

\* the second unit of a batch collides after the first has passed
C2_Witness ==
    /\ op = "deploy" /\ pc = "done" /\ err = "ContextCollision"
    /\ Len(new_apps) = 2 /\ idx = 2
    /\ NoDeployCmd

(***************************************************************************)
(* C3, as claimed: when the conflict check examines a unit without a       *)
(* version whose context is not in the status and whose path some node     *)
(* serves (on every node or on some only), deploy ends with PathCollision  *)
(* and no deploy command is issued.                                        *)
(***************************************************************************)
C3_Step ==
    (/\ Examining
     /\ new_apps[idx].ver = None
     /\ new_apps[idx].ctx \notin DOMAIN stats
     /\ new_apps[idx].path \in NodePaths(stats)) =>
        (pc' = "done" /\ err' = "PathCollision" /\ NoDeployCmd')

C3_PathCollision == [][C3_Step]_vars

(***************************************************************************)
(* C4, as claimed: when the conflict check examines a versioned unit whose *)
(* context is not in the status and whose path some node serves while no   *)
(* context has it as its cluster-wide path, deploy ends with               *)
(* PartialClusterDeployment and no deploy command is issued.               *)
(***************************************************************************)
C4_Step ==
    (/\ Examining
     /\ new_apps[idx].ver # None
     /\ new_apps[idx].ctx \notin DOMAIN stats
     /\ new_apps[idx].path \in NodePaths(stats)
     /\ ServedBy(stats, new_apps[idx].path) = {}) =>
        (pc' = "done" /\ err' = "PartialClusterDeployment" /\ NoDeployCmd')

C4_PartialClusterDeployment == [][C4_Step]_vars

(***************************************************************************)
(* Versioned units.                                                        *)
(***************************************************************************)
\* the conflict check is looking at a versioned unit whose context is not
\* in the status and whose path is the cluster-wide path of n contexts or
\* more
ExaminingVersioned(n) ==
    /\ Examining
    /\ new_apps[idx].ver # None
    /\ new_apps[idx].ctx \notin DOMAIN stats
    /\ Cardinality(ServedBy(stats, new_apps[idx].path)) >= n

\* the contexts the status gives for the path of the unit examined
Existing == ServedBy(stats, new_apps[idx].path)

\* some existing context is greater than the unit's, character by character
NotGreatest == \E c \in Existing : LexLess(new_apps[idx].ctx, c)

\* every existing context is smaller than the unit's
AllBelow == \A c \in Existing : LexLess(c, new_apps[idx].ctx)

(***************************************************************************)
(* C5, as claimed: a versioned unit whose path is served by one context or *)
(* more and whose context is not the greatest of them and itself ends      *)
(* deploy with SupersededByNewerVersion, without a deploy command.         *)
(***************************************************************************)
C5_ClaimedStep ==
    (ExaminingVersioned(1) /\ NotGreatest) =>
        (pc' = "done" /\ err' = "SupersededByNewerVersion" /\ NoDeployCmd')

C5_Claimed == [][C5_ClaimedStep]_vars

(***************************************************************************)
(* C5, amended: the comparison is made only when the path is served by two *)
(* contexts or more.  Then a versioned unit, examined with its context not *)
(* in the status, whose context is not the greatest ends deploy with       *)
(* SupersededByNewerVersion, with no command issued.  With exactly one     *)
(* context on the path the unit passes the check whatever the order.       *)
(***************************************************************************)
C5_Step ==
    /\ (ExaminingVersioned(2) /\ NotGreatest) =>
          /\ pc' = "done" /\ err' = "SupersededByNewerVersion"
          /\ log' = log /\ NoDeployCmd'
    /\ (ExaminingVersioned(1) /\ ~ExaminingVersioned(2)) =>
          (pc' = "clean" /\ idx' = idx + 1 /\ err' = "running" /\ log' = log)

C5_Superseded == [][C5_Step]_vars

C5_Witness ==
    /\ op = "deploy" /\ pc = "done" /\ err = "SupersededByNewerVersion"
    /\ new_apps[idx].ctx = CtxA10
    /\ Existing = {CtxA2, CtxA9}

(***************************************************************************)
(* C6: the latest context is the greatest of the unit's context and the    *)
(* existing ones character by character, not by version number: the unit   *)
(* is retired for exactly when every existing context is smaller in that   *)
(* order, and is refused as superseded otherwise; with "/a##9" and         *)
(* "/a##10" on one path, "/a##9" is the latest.                            *)
(***************************************************************************)
C6_Step ==
    ExaminingVersioned(2) =>
        LET l == latest(new_apps[idx].ctx, get_paths(stats)[new_apps[idx].path])
            S == Existing \cup {new_apps[idx].ctx}
        IN  /\ l \in S
            /\ \A c \in S \ {l} : LexLess(c, l)
            /\ (CtxA9 \in S /\ CtxA10 \in S) => l # CtxA10
            /\ IF AllBelow
               THEN pc' = "retire_check" /\ err' = "running"
               ELSE pc' = "done" /\ err' = "SupersededByNewerVersion"
            /\ (new_apps[idx].ctx = CtxA10 /\ CtxA9 \in Existing) =>
                  err' = "SupersededByNewerVersion"
            /\ (new_apps[idx].ctx = CtxA9 /\ Existing = {CtxA10, CtxA2}) =>
                  pc' = "retire_check"

C6_Lexicographic == [][C6_Step]_vars

\* "/a##9" is deployed over "/a##10" and "/a##2", and taken as the latest
C6_Witness ==
    /\ op = "deploy" /\ pc = "retire_check"
    /\ new_apps[idx].ctx = CtxA9
    /\ Existing = {CtxA10, CtxA2}

(***************************************************************************)
(* C7, as claimed: for a batch of one versioned unit whose path is served  *)
(* by one context or more, all smaller than the unit's, deploy issues one  *)
(* undeploy_old_versions command and reads the status again.               *)
(***************************************************************************)
C7_ClaimedStep ==
    (Len(new_apps) = 1 /\ ExaminingVersioned(1) /\ AllBelow) =>
        /\ pc' = "retire_check"
        /\ Cardinality(CmdsNext("undeploy_old_versions")) = 1

C7_Claimed == [][C7_ClaimedStep]_vars

(***************************************************************************)
(* C7, amended: for a batch of one versioned unit whose context is not in  *)
(* the status and whose path is served by two contexts or more, all        *)
(* smaller than the unit's, deploy issues exactly one                      *)
(* undeploy_old_versions command, before any deploy command, then reads    *)
(* the status again, and raises AmbiguousVersionsRemain, with no deploy    *)
(* command, if that status gives more than one context for the path.  With *)
(* exactly one context on the path nothing is retired.                     *)
(***************************************************************************)
C7_Step ==
    /\ (Len(new_apps) = 1 /\ ExaminingVersioned(2) /\ AllBelow) =>
          /\ pc' = "retire_check"
          /\ Cardinality(CmdsNext("undeploy_old_versions")) = 1
          /\ log'[Len(log') - 1].cmd = "undeploy_old_versions"
          /\ log'[Len(log')].cmd = "webapp_status"
          /\ NoDeployCmd'
    /\ (Len(new_apps) = 1 /\ op = "deploy" /\ pc = "retire_check"
          /\ Cardinality(ServedBy(stats2, new_apps[idx].path)) > 1) =>
          /\ pc' = "done" /\ err' = "AmbiguousVersionsRemain"
          /\ log' = log /\ NoDeployCmd'
    /\ (Len(new_apps) = 1 /\ op = "deploy") =>
          /\ Cardinality(CmdsNext("undeploy_old_versions")) <= 1
          /\ \A d \in CmdsNext("deploy") :
               \A i \in CmdsNext("undeploy_old_versions") : i < d
    /\ (Len(new_apps) = 1 /\ ExaminingVersioned(1) /\ ~ExaminingVersioned(2)) =>
          (pc' = "clean" /\ log' = log)

C7_Retire == [][C7_Step]_vars

\* the status read after the retirement still has two contexts on the path
C7_Witness ==
    /\ op = "deploy" /\ pc = "done" /\ err = "AmbiguousVersionsRemain"
    /\ Len(new_apps) = 1
    /\ Cardinality(Cmds("undeploy_old_versions")) = 1
    /\ Cardinality(ServedBy(stats2, new_apps[1].path)) > 1

(***************************************************************************)
(* The memory check.  In every configuration of the model gc_wait_time is  *)
(* 10 and poll_interval is 5.                                              *)
(***************************************************************************)
\* every pool of the list is a young-generation pool
AllNoise(pools) ==
    \A i \in 1..Len(pools) :
        pools[i] \in {"Par Eden Space", "Par Survivor Space"}

\* the hosts of the answer r that report a pool that is not noise
OverThreshold(r) == {h \in DOMAIN r : ~AllNoise(r[h])}

(***************************************************************************)
(* C8, as claimed: with auto_gc and hosts that stay short of memory, the   *)
(* memory check fails after 10 seconds of sleep, 2 poll cycles.            *)
(***************************************************************************)
C8_Claimed ==
    (op = "deploy" /\ cfg.auto_gc /\ err = "InsufficientMemory") =>
        slept = 10

(***************************************************************************)
(* C8, amended: with auto_gc, gc_wait_time 10 and poll_interval 5, and a   *)
(* host short of memory at every check, the memory check fails with        *)
(* InsufficientMemory after exactly 3 poll cycles, 15 seconds of sleep, at *)
(* the fourth check after the GC (the fifth query), neither earlier nor    *)
(* later: the wait gives up when wait_total exceeds gc_wait_time.  A check *)
(* that finds no host short of memory returns success at once.             *)
(***************************************************************************)
C8_Step ==
    pc = "wait_mem" =>
        /\ slept = wait_total
        /\ (OverThreshold(rv') = {}) =>
              /\ pc' = "deploy" /\ err' = "running" /\ slept' = slept
              /\ log'[Len(log')] = Ret("_check_memory")
        /\ (OverThreshold(rv') # {} /\ slept < 15) =>
              (pc' = "wait_mem" /\ slept' = slept + 5)
        /\ (OverThreshold(rv') # {} /\ slept >= 15) =>
              /\ pc' = "done" /\ err' = "InsufficientMemory"
              /\ slept' = 15
              /\ Cardinality(CmdsNext("find_pools_over")) = 5

C8_GcWait == [][C8_Step]_vars

C8_Witness ==
    /\ op = "deploy" /\ pc = "done" /\ err = "InsufficientMemory"
    /\ cfg.auto_gc
    /\ slept = 15
    /\ Cardinality(Cmds("find_pools_over")) = 5

(***************************************************************************)
(* C9: when the first query finds no host short of memory the check        *)
(* returns at once, with no run_gc and no sleep; when it finds some and    *)
(* auto_gc is off the check raises InsufficientMemory at once, with no     *)
(* run_gc, no sleep and no other query; when auto_gc is on, run_gc is      *)
(* issued once, right after the first query, on exactly the hosts that     *)
(* query found short of memory.                                            *)
(***************************************************************************)
C9_Step ==
    /\ pc = "check_memory" =>
          /\ Cmds("find_pools_over") = {} /\ Cmds("run_gc") = {}
          /\ Cardinality(CmdsNext("find_pools_over")) = 1
          /\ slept' = 0
          /\ (OverThreshold(rv') = {}) =>
                /\ pc' = "deploy" /\ err' = "running"
                /\ CmdsNext("run_gc") = {}
                /\ log'[Len(log')] = Ret("_check_memory")
          /\ (OverThreshold(rv') # {} /\ ~cfg.auto_gc) =>
                /\ pc' = "done" /\ err' = "InsufficientMemory"
                /\ CmdsNext("run_gc") = {}
          /\ (OverThreshold(rv') # {} /\ cfg.auto_gc) =>
                /\ pc' = "wait_mem" /\ err' = "running"
                /\ Cardinality(CmdsNext("run_gc")) = 1
                /\ log'[Len(log')].cmd = "run_gc"
                /\ log'[Len(log')].arg = OverThreshold(rv')
                /\ log'[Len(log') - 1].cmd = "find_pools_over"
    /\ pc # "check_memory" => CmdsNext("run_gc") = Cmds("run_gc")

C9_FirstQuery == [][C9_Step]_vars

\* the GC has been run on one of the two nodes only
C9_Witness ==
    /\ op = "deploy" /\ pc = "wait_mem"
    /\ Cardinality(Cmds("run_gc")) = 1
    /\ log[Len(log)].cmd = "run_gc" /\ log[Len(log)].arg = {"n2"}
    /\ DOMAIN rv = NodeSet

(***************************************************************************)
(* C10: of the hosts that find_pools_over reports, _get_memory leaves out  *)
(* those whose pools are all noise pools and keeps, with their pools,      *)
(* those with a pool that is not; when the first query reports noise pools *)
(* only, the memory check returns without a GC.                            *)
(***************************************************************************)
C10_Step ==
    /\ DOMAIN mem' = OverThreshold(rv')
    /\ \A h \in DOMAIN rv' :
          /\ AllNoise(rv'[h]) => h \notin DOMAIN mem'
          /\ ~AllNoise(rv'[h]) => (h \in DOMAIN mem' /\ mem'[h] = rv'[h])
    /\ (pc = "check_memory" /\ \A h \in DOMAIN rv' : AllNoise(rv'[h])) =>
          /\ pc' = "deploy" /\ err' = "running"
          /\ CmdsNext("run_gc") = {}

C10_NoisePools == [][C10_Step]_vars

\* every node reports noise pools only, and the memory check has returned
C10_Witness ==
    /\ op = "deploy" /\ pc = "deploy"
    /\ DOMAIN rv = NodeSet
    /\ \A h \in NodeSet : AllNoise(rv[h])
    /\ Cardinality(Cmds("find_pools_over")) = 1
    /\ Cmds("run_gc") = {}

(***************************************************************************)
(* Vocabulary of the convergence wait and of the rollback.                 *)
(***************************************************************************)
\* the status reads of _wait_for_apps: those after _clean_old_apps returned
ConvReads ==
    {i \in Cmds("webapp_status") : \E j \in Rets("_clean_old_apps") : j < i}

ConvReadsNext ==
    {i \in CmdsNext("webapp_status") :
        \E j \in DOMAIN log' :
            /\ log'[j].cmd = "return" /\ log'[j].arg = "_clean_old_apps"
            /\ j < i}

\* context c is present, coherent and STARTED in the status st
Ready(c, st) ==
    /\ c \in DOMAIN st
    /\ st[c].coherent = TRUE
    /\ st[c].stateName = "STARTED"

\* the contexts of the batch
BatchCtxs == {new_apps[i].ctx : i \in 1..Len(new_apps)}

AllReady(st) == \A c \in BatchCtxs : Ready(c, st)

(***************************************************************************)
(* C11: when the first status read of the convergence wait shows every     *)
(* context of the batch present, coherent and STARTED, _wait_for_apps      *)
(* returns the empty list after that one read and without a sleep, and     *)
(* deploy returns without an error and without an undeploy command.        *)
(***************************************************************************)
C11_Step ==
    /\ (pc = "wait_apps" /\ ConvReads = {} /\ pc' = "wait_polled"
          /\ AllReady(stats')) =>
          /\ failed_apps' = <<>>
          /\ Cardinality(ConvReadsNext) = 1
          /\ wait_total' = 0 /\ slept' = slept
    /\ (pc = "wait_polled" /\ Cardinality(ConvReads) = 1
          /\ AllReady(stats)) =>
          /\ pc' = "waited"
          /\ failed_apps' = <<>>
          /\ log' = Append(log, Ret("_wait_for_apps"))
          /\ wait_total' = 0 /\ slept' = slept
    /\ (pc = "waited" /\ Cardinality(ConvReads) = 1 /\ failed_apps = <<>>) =>
          /\ pc' = "done" /\ err' = "returned"
          /\ log' = log
          /\ Cmds("undeploy") = {}
          /\ wait_total = 0

C11_FirstReadReady == [][C11_Step]_vars

\* deploy of two units has returned after one status read of the wait
C11_Witness ==
    /\ op = "deploy" /\ pc = "done" /\ err = "returned"
    /\ Len(new_apps) = 2
    /\ Cardinality(ConvReads) = 1
    /\ failed_apps = <<>>
    /\ wait_total = 0
    /\ Cmds("undeploy") = {}

(***************************************************************************)
(* C12: when _wait_for_apps returns a list that is not empty, deploy ends  *)
(* with DeploymentFailed and never returns; with undeploy_on_error it has  *)
(* by then issued exactly one undeploy command for every context of the    *)
(* batch, those that did converge included, all after the wait returned;   *)
(* without undeploy_on_error it issues no undeploy command.                *)
(***************************************************************************)
\* _wait_for_apps has returned a list that is not empty
WaitFailed ==
    /\ op = "deploy" /\ Rets("_wait_for_apps") # {}
    /\ failed_apps # <<>>

\* the undeploy commands issued for context c
UndeploysOf(c) == {i \in Cmds("undeploy") : log[i].arg = c}

C12_Rollback ==
    /\ WaitFailed =>
          /\ err \in {"running", "DeploymentFailed"}
          /\ pc \in {"waited", "undeploy", "done"}
          /\ pc = "done" => err = "DeploymentFailed"
          /\ (pc = "done" /\ cfg.undeploy_on_error) =>
                /\ \A c \in BatchCtxs : Cardinality(UndeploysOf(c)) = 1
                /\ Cardinality(Cmds("undeploy")) = Len(new_apps)
                /\ \A i \in Cmds("undeploy") :
                      \A j \in Rets("_wait_for_apps") : j < i
          /\ ~cfg.undeploy_on_error => Cmds("undeploy") = {}
    /\ (op = "deploy" /\ ~WaitFailed) => Cmds("undeploy") = {}

\* one of the two contexts converged, and both have been undeployed
C12_Witness ==
    /\ WaitFailed /\ pc = "done" /\ err = "DeploymentFailed"
    /\ cfg.undeploy_on_error
    /\ Len(new_apps) = 2 /\ Len(failed_apps) = 1
    /\ Cardinality(Cmds("undeploy")) = 2

(***************************************************************************)
(* C13: the public undeploy issues one undeploy command for each context   *)
(* it is given, in the order given, and nothing else: no status read, no   *)
(* sleep, no other command; it reads no cluster state, so what the cluster *)
(* holds makes no difference, and it returns without raising.              *)
(***************************************************************************)
C13_Undeploy ==
    op = "undeploy" =>
        /\ err \in {"running", "returned"}
        /\ stats = NoStats /\ stats2 = NoStats
        /\ slept = 0 /\ wait_total = 0
        /\ \A i \in DOMAIN log : log[i].cmd = "undeploy"
        /\ Len(log) <= Len(new_apps)
        /\ \A i \in DOMAIN log : log[i].arg = new_apps[i].ctx
        /\ pc = "done" =>
              /\ err = "returned"
              /\ Len(log) = Len(new_apps)
              /\ \A c \in BatchCtxs : Cardinality(UndeploysOf(c)) = 1

\* undeploy of two contexts has returned
C13_Witness ==
    /\ op = "undeploy" /\ pc = "done" /\ err = "returned"
    /\ Len(new_apps) = 2
    /\ Len(log) = 2
    /\ log[1].cmd = "undeploy" /\ log[2].cmd = "undeploy"

(***************************************************************************)
(* C14: deploy returns only when the last status read of the run showed    *)
(* every context of the batch present, coherent and STARTED; every other   *)
(* run of deploy that ends, ends with an error; and the contexts that      *)
(* DeploymentFailed names are exactly those the last status read showed    *)
(* absent, not coherent or not STARTED.  failed_apps is set at each status *)
(* read of the wait to the contexts that read shows not ready, and is left *)
(* alone by every step that reads no status, up to the end of the run.     *)
(***************************************************************************)
\* the contexts of the batch the status st shows not ready
NotReady(st) == {c \in BatchCtxs : ~Ready(c, st)}

\* the step reads the cluster status
ReadsStatus == CmdsNext("webapp_status") # Cmds("webapp_status")

C14_Step ==
    /\ (op = "deploy" /\ pc \in {"wait_apps", "wait_polled", "waited",
                                 "undeploy"}) =>
          /\ ReadsStatus =>
                /\ Range(failed_apps') = NotReady(stats')
                /\ Len(failed_apps') = Cardinality(NotReady(stats'))
                /\ log'[Len(log')].cmd = "webapp_status"
          /\ ~ReadsStatus => failed_apps' = failed_apps
    /\ (op = "deploy" /\ pc = "wait_polled") =>
          /\ Range(failed_apps) = NotReady(stats)
          /\ (pc' = "waited" <=> AllReady(stats))
    /\ (op = "deploy" /\ err' = "returned") =>
          /\ pc = "waited" /\ ConvReads # {}
          /\ failed_apps = <<>> /\ ~ReadsStatus
    /\ (op = "deploy" /\ err = "running" /\ err' = "DeploymentFailed") =>
          /\ pc \in {"waited", "undeploy"} /\ ConvReads # {}
          /\ failed_apps # <<>> /\ failed_apps # Unbound
          /\ Range(failed_apps) \subseteq BatchCtxs
          /\ ~ReadsStatus
    /\ (op = "deploy" /\ pc' = "done") => err' # "running"

C14_LastRead == [][C14_Step]_vars

\* deploy has returned after a second status read that showed the two
\* contexts ready, the first having shown one of them not ready
C14_Witness ==
    /\ op = "deploy" /\ pc = "done" /\ err = "returned"
    /\ Len(new_apps) = 2
    /\ Cardinality(ConvReads) = 2
    /\ wait_total = 5
    /\ failed_apps = <<>>

(***************************************************************************)
(* C15: every run of deploy that ends with an error ends with one of the   *)
(* errors deploy raises itself as a TomcatError; no run ends with a        *)
(* KeyError or an UnboundLocalError, whatever the status and for every     *)
(* deploy_wait_time >= 0 and poll_interval > 0.                            *)
(***************************************************************************)
C15_TypedErrors ==
    (op = "deploy" /\ pc = "done" /\ cfg.deploy_wait_time >= 0
        /\ cfg.poll_interval > 0) =>
        err \in TomcatErrors \cup {"returned"}

(***************************************************************************)
(* C16: with poll_interval > 0 and deploy_wait_time > 0, _wait_for_apps    *)
(* always returns, also when no context ever becomes ready: it reads the   *)
(* status at most ceil(deploy_wait_time / poll_interval) times and sleeps  *)
(* at most deploy_wait_time rounded up to a multiple of poll_interval; and *)
(* _wait_for_free_mem always ends, having slept at most gc_wait_time plus  *)
(* one poll_interval.                                                      *)
(***************************************************************************)
\* n rounded up to a multiple of k
RoundUp(n, k) == ((n + k - 1) \div k) * k

\* ceil(n / k)
Ceil(n, k) == (n + k - 1) \div k

InWait == op = "deploy" /\ pc \in {"wait_apps", "wait_polled", "waited"}

InGcWait == op = "deploy" /\ pc = "wait_mem"

C16_Bounds ==
    (cfg.poll_interval > 0 /\ cfg.deploy_wait_time > 0) =>
        /\ Cardinality(ConvReads)
              <= Ceil(cfg.deploy_wait_time, cfg.poll_interval)
        /\ InWait =>
              /\ wait_total
                    <= RoundUp(cfg.deploy_wait_time, cfg.poll_interval)
              /\ Cardinality(ConvReads) * cfg.poll_interval
                    <= wait_total + cfg.poll_interval
        /\ InGcWait =>
              /\ wait_total <= cfg.gc_wait_time + cfg.poll_interval
              /\ slept = wait_total
        /\ slept <= cfg.gc_wait_time + cfg.poll_interval
                    + RoundUp(cfg.deploy_wait_time, cfg.poll_interval)

C16_Terminates ==
    /\ []C16_Bounds
    /\ (op = "deploy" /\ pc = "wait_apps" /\ cfg.deploy_wait_time > 0)
          ~> (pc = "waited")
    /\ InGcWait ~> (pc = "deploy"
                      \/ (pc = "done" /\ err = "InsufficientMemory"))

\* no context became ready: both waits went to their limits, with a
\* deploy_wait_time that is not a multiple of poll_interval
C16_Witness ==
    /\ op = "deploy" /\ pc = "waited"
    /\ cfg.deploy_wait_time = 7 /\ cfg.poll_interval = 5
    /\ Cardinality(ConvReads) = 2
    /\ wait_total = 10
    /\ slept = 25
    /\ failed_apps # <<>>

(***************************************************************************)
(* C17, as claimed: every query of the memory check, those of the wait     *)
(* after the GC included, asks the full node set of the cluster.           *)
(***************************************************************************)
C17_Claimed ==
    \A i \in Cmds("find_pools_over") : log[i].arg = NodeSet

(***************************************************************************)
(* C17, amended: the first query asks every node; each query of the wait   *)
(* after the GC asks only the hosts the first query found short of memory, *)
(* the hosts the GC was run on.  The wait returns success exactly when     *)
(* that query reports none of those hosts short of memory; hosts that      *)
(* recovered are absent from the result of the query, and a node outside   *)
(* the hosts asked never appears in it.                                    *)
(***************************************************************************)
\* the queries of the wait: those after the GC
WaitQueries ==
    {i \in Cmds("find_pools_over") : \E j \in Cmds("run_gc") : j < i}

C17_Step ==
    /\ InGcWait =>
          /\ hosts # {} /\ hosts \subseteq NodeSet
          /\ \A j \in Cmds("run_gc") : log[j].arg = hosts
          /\ \A i \in Cmds("find_pools_over") \ WaitQueries :
                log[i].arg = NodeSet
          /\ \A i \in WaitQueries : log[i].arg = hosts
          /\ hosts' = hosts
          /\ DOMAIN rv' \subseteq hosts
          /\ DOMAIN mem' = OverThreshold(rv')
          /\ \A h \in hosts \ OverThreshold(rv') : h \notin DOMAIN mem'
          /\ (pc' = "deploy") <=> (OverThreshold(rv') = {})
          /\ pc' = "deploy" =>
                /\ log'[Len(log')] = Ret("_check_memory")
                /\ log'[Len(log') - 1].cmd = "find_pools_over"
                /\ log'[Len(log') - 1].arg = hosts
    /\ (op = "deploy" /\ pc \notin {"check_memory", "wait_mem"}) =>
          CmdsNext("find_pools_over") = Cmds("find_pools_over")

C17_Recheck == [][C17_Step]_vars

\* the wait has returned success on the third query of the one host the
\* first query found short of memory
C17_Witness ==
    /\ op = "deploy" /\ pc = "deploy" /\ idx = 1
    /\ log[Len(log)] = Ret("_check_memory")
    /\ hosts = {"n1"}
    /\ Cardinality(WaitQueries) = 3
    /\ \A i \in WaitQueries : log[i].arg = {"n1"}
    /\ slept = 10

(***************************************************************************)
(* Vocabulary of the retirement.                                           *)
(***************************************************************************)
\* the positions of the log the step appends
Appended == (Len(log) + 1)..Len(log')

\* the positions where the step appends command c
AppendedCmds(c) == {i \in Appended : log'[i].cmd = c}

\* the contexts the step expires the sessions of
ExpiredNow == {log'[i].arg : i \in AppendedCmds("expire_sessions")}

\* the step retires the old versions of the path of unit new_apps[idx]
Retiring == Examining /\ pc' = "retire_check"

\* the greatest context of the set S
Greatest(S) == CHOOSE c \in S : \A d \in S \ {c} : LexLess(d, c)

(***************************************************************************)
(* C18, as claimed: a retirement with kill_sessions issues one             *)
(* expire_sessions command for every existing context of the path, the     *)
(* latest of the unit and the existing contexts being the unit itself.     *)
(***************************************************************************)
C18_ClaimedStep ==
    (Retiring /\ cfg.kill_sessions) =>
        ExpiredNow = ServedBy(stats, new_apps[idx].path)

C18_Claimed == [][C18_ClaimedStep]_vars

(***************************************************************************)
(* C18, amended: a retirement is performed for a unit that sorts above the *)
(* two or more existing contexts of its path.  With kill_sessions it       *)
(* issues one expire_sessions command for every existing context of the    *)
(* path except the greatest of the existing ones, in ascending order, all  *)
(* before the one undeploy_old_versions command; without kill_sessions it  *)
(* issues no expire_sessions command.  No other step expires sessions.     *)
(***************************************************************************)
C18_Step ==
    /\ Retiring =>
          LET existing == ServedBy(stats, new_apps[idx].path)
              old == existing \ {Greatest(existing)}
          IN  /\ Cardinality(existing) > 1
              /\ \A c \in existing : LexLess(c, new_apps[idx].ctx)
              /\ Cardinality(AppendedCmds("undeploy_old_versions")) = 1
              /\ log'[Len(log')].cmd = "webapp_status"
              /\ log'[Len(log') - 1].cmd = "undeploy_old_versions"
              /\ cfg.kill_sessions =>
                    /\ ExpiredNow = old
                    /\ Cardinality(AppendedCmds("expire_sessions"))
                          = Cardinality(old)
                    /\ \A i, j \in AppendedCmds("expire_sessions") :
                          i < j => LexLess(log'[i].arg, log'[j].arg)
                    /\ \A i \in AppendedCmds("expire_sessions") :
                          i < Len(log') - 1
              /\ ~cfg.kill_sessions => AppendedCmds("expire_sessions") = {}
    /\ ~Retiring => AppendedCmds("expire_sessions") = {}

C18_ExpireSessions == [][C18_Step]_vars

\* /a##9 is deployed over /a##10 and /a##2 with kill_sessions: the sessions
\* of /a##10 have been expired, those of /a##2 have not
C18_Witness ==
    /\ op = "deploy" /\ pc = "retire_check" /\ cfg.kill_sessions
    /\ new_apps[idx].ctx = CtxA9
    /\ ServedBy(stats, new_apps[idx].path) = {CtxA10, CtxA2}
    /\ Cardinality(Cmds("expire_sessions")) = 1
    /\ \A i \in Cmds("expire_sessions") : log[i].arg = CtxA10
    /\ Cardinality(Cmds("undeploy_old_versions")) = 1

(***************************************************************************)
(* C19: for every status read, the paths that _get_webapps builds hold     *)
(* every context of the status exactly once, in the bucket of its          *)
(* cluster-wide path and in no other bucket, and hold nothing that is not  *)
(* a context of the status.                                                *)
(***************************************************************************)
\* how many times c occurs in the list s
Count(c, s) == Cardinality({i \in DOMAIN s : s[i] = c})

ViewOk(st) ==
    LET paths == get_paths(st)
    IN  /\ \A c \in DOMAIN st :
              /\ st[c].path \in DOMAIN paths
              /\ \A p \in DOMAIN paths :
                    Count(c, paths[p]) = IF p = st[c].path THEN 1 ELSE 0
        /\ \A p \in DOMAIN paths :
              /\ paths[p] # <<>>
              /\ Range(paths[p]) \subseteq DOMAIN st

C19_View ==
    /\ stats # NoStats => ViewOk(stats)
    /\ stats2 # NoStats => ViewOk(stats2)

\* a status with two contexts in one bucket, and one with two buckets
C19_Witness ==
    /\ op = "deploy" /\ pc = "retire_check"
    /\ Cardinality(DOMAIN stats) = 2
    /\ Cardinality(DOMAIN get_paths(stats)) = 1
    /\ Cardinality(DOMAIN stats2) = 2
    /\ Cardinality(DOMAIN get_paths(stats2)) = 2

(***************************************************************************)
(* C20, as claimed: when deploy ends with ContextCollision, PathCollision, *)
(* PartialClusterDeployment or SupersededByNewerVersion, whatever the size *)
(* of the batch, no command that changes the cluster has been issued in    *)
(* the run.                                                                *)
(***************************************************************************)
CollisionErrors ==
    {"ContextCollision", "PathCollision", "PartialClusterDeployment",
     "SupersededByNewerVersion"}

CollisionExit == op = "deploy" /\ pc = "done" /\ err \in CollisionErrors

C20_Claimed ==
    CollisionExit => \A i \in DOMAIN log : log[i].cmd \notin ChangingCmds

(***************************************************************************)
(* C20, amended: when deploy ends with one of these errors, no run_gc, no  *)
(* deploy and no undeploy command has been issued, and the unit the check  *)
(* stopped at has caused no command: the last thing done is a status read. *)
(* When that unit is the first of the batch, the one status read is all    *)
(* that has occurred.  For a later unit, the units before it may have been *)
(* retired: there are at most as many undeploy_old_versions commands as    *)
(* units before it, each followed by a status read, and expire_sessions    *)
(* commands only with kill_sessions.                                       *)
(***************************************************************************)
C20_NoChange ==
    CollisionExit =>
        /\ Cmds("run_gc") = {} /\ Cmds("deploy") = {} /\ Cmds("undeploy") = {}
        /\ Cmds("find_pools_over") = {}
        /\ log[1].cmd = "webapp_status"
        /\ log[Len(log)].cmd = "webapp_status"
        /\ idx = 1 => Len(log) = 1
        /\ Cardinality(Cmds("undeploy_old_versions")) <= idx - 1
        /\ Cardinality(Cmds("webapp_status"))
              = 1 + Cardinality(Cmds("undeploy_old_versions"))
        /\ \A i \in Cmds("undeploy_old_versions") :
              i < Len(log) /\ log[i + 1].cmd = "webapp_status"
        /\ Cmds("expire_sessions") # {} =>
              (cfg.kill_sessions /\ Cmds("undeploy_old_versions") # {})
        /\ \A i \in Cmds("expire_sessions") :
              \E j \in Cmds("undeploy_old_versions") : i < j

\* the second unit of the batch collides after the old versions of the
\* path of the first have been retired
C20_Witness ==
    /\ CollisionExit /\ idx = 2
    /\ Cardinality(Cmds("undeploy_old_versions")) = 1
    /\ Cardinality(Cmds("expire_sessions")) = 1
    /\ Cardinality(Cmds("webapp_status")) = 2

====
